---- MODULE Spec2Model ----
(***************************************************************************)
(* Model of the budget allocator: the allocation engine calculateAllocation *)
(* (src/src/lib/constants.ts, lines 135-286) with its static tables.        *)
(*                                                                         *)
(* Every quantity the engine computes is a JavaScript `number`, an IEEE 754 *)
(* binary64 value.  The engine divides, multiplies and adds such values and *)
(* the results are rounded to 53 significant bits each time, so the model   *)
(* carries numbers as binary64 values (sign, 53-bit significand, exponent)  *)
(* and rounds every operation to nearest, ties to even, as the hardware     *)
(* does.  Significands do not fit TLC's integers, so they are kept as       *)
(* little-endian sequences of 15-bit limbs.                                 *)
(***************************************************************************)
EXTENDS Integers, Sequences, FiniteSets, TLC

----------------------------------------------------------------------------
(* Natural numbers of any size: little-endian limb sequences, no leading    *)
(* zero limb, zero is the empty sequence.                                   *)

LimbBits == 15
Base == 2^LimbBits

RECURSIVE BNorm(_)
BNorm(a) ==
  IF a = <<>> THEN <<>>
  ELSE IF a[Len(a)] = 0 THEN BNorm(SubSeq(a, 1, Len(a) - 1))
  ELSE a

BLimb(a, i) == IF i >= 1 /\ i <= Len(a) THEN a[i] ELSE 0

RECURSIVE BFromInt(_)
BFromInt(n) == IF n = 0 THEN <<>> ELSE <<n % Base>> \o BFromInt(n \div Base)

RECURSIVE BToInt(_)
BToInt(a) == IF a = <<>> THEN 0 ELSE a[1] + Base * BToInt(Tail(a))

RECURSIVE BCmpAt(_, _, _)
BCmpAt(a, b, i) ==
  IF i = 0 THEN 0
  ELSE IF a[i] > b[i] THEN 1
  ELSE IF a[i] < b[i] THEN -1
  ELSE BCmpAt(a, b, i - 1)

BCmp(a, b) ==
  IF Len(a) > Len(b) THEN 1
  ELSE IF Len(a) < Len(b) THEN -1
  ELSE BCmpAt(a, b, Len(a))

RECURSIVE BAddC(_, _, _, _)
BAddC(a, b, i, c) ==
  IF i > Len(a) /\ i > Len(b) THEN (IF c = 0 THEN <<>> ELSE <<c>>)
  ELSE <<(BLimb(a, i) + BLimb(b, i) + c) % Base>>
       \o BAddC(a, b, i + 1, (BLimb(a, i) + BLimb(b, i) + c) \div Base)

BAdd(a, b) == BAddC(a, b, 1, 0)

RECURSIVE BSubC(_, _, _, _)
BSubC(a, b, i, c) ==
  IF i > Len(a) THEN <<>>
  ELSE <<(a[i] - BLimb(b, i) - c) % Base>>
       \o BSubC(a, b, i + 1, IF a[i] - BLimb(b, i) - c < 0 THEN 1 ELSE 0)

\* a - b for a >= b
BSub(a, b) == BNorm(BSubC(a, b, 1, 0))

RECURSIVE BMulSmallC(_, _, _, _)
BMulSmallC(a, k, i, c) ==
  IF i > Len(a) THEN (IF c = 0 THEN <<>> ELSE <<c>>)
  ELSE <<(a[i] * k + c) % Base>> \o BMulSmallC(a, k, i + 1, (a[i] * k + c) \div Base)

\* a * k for 0 <= k < Base
BMulSmall(a, k) == IF k = 0 THEN <<>> ELSE BMulSmallC(a, k, 1, 0)

BShlLimbs(a, n) == IF a = <<>> THEN <<>> ELSE [i \in 1..n |-> 0] \o a

RECURSIVE BMulAt(_, _, _)
BMulAt(a, b, i) ==
  IF i > Len(b) THEN <<>>
  ELSE BAdd(BShlLimbs(BMulSmall(a, b[i]), i - 1), BMulAt(a, b, i + 1))

BMul(a, b) == BMulAt(a, b, 1)

\* a * 2^k
BShl(a, k) == BShlLimbs(BMulSmall(a, 2^(k % LimbBits)), k \div LimbBits)

\* floor(a / 2^k), k = LimbBits * w + j: limb i is made of the high bits of
\* limb i + w and the low j bits of the limb above it
BShrBy(a, w, j) ==
  IF w >= Len(a) THEN <<>>
  ELSE BNorm([i \in 1..(Len(a) - w) |->
                (a[i + w] \div 2^j) + (BLimb(a, i + w + 1) % 2^j) * 2^(LimbBits - j)])

BShr(a, k) == BShrBy(a, k \div LimbBits, k % LimbBits)

\* bit i of a (bit 0 is the lowest)
BBit(a, i) == (BLimb(a, i \div LimbBits + 1) \div 2^(i % LimbBits)) % 2

\* a mod 2^k # 0
BLowNonZero(a, k) ==
  \/ \E i \in 1..(k \div LimbBits) : BLimb(a, i) # 0
  \/ BLimb(a, k \div LimbBits + 1) % 2^(k % LimbBits) # 0

\* the number of bits of a limb
SmallBitLen(n) ==
  IF n = 0 THEN 0 ELSE CHOOSE k \in 1..LimbBits : 2^(k - 1) <= n /\ n < 2^k

BBitLen(a) ==
  IF a = <<>> THEN 0 ELSE LimbBits * (Len(a) - 1) + SmallBitLen(a[Len(a)])

\* the estimate of a quotient digit from the top two limbs of r: never less
\* than the digit, never above Base - 1
BGuessDigit(b, r) ==
  IF (BLimb(r, Len(b) + 1) * Base + BLimb(r, Len(b))) \div b[Len(b)] > Base - 1
  THEN Base - 1
  ELSE (BLimb(r, Len(b) + 1) * Base + BLimb(r, Len(b))) \div b[Len(b)]

\* Long division by limbs, from limb i of a down (i = 0: done); b's top limb
\* is at least Base/2, r < b is the remainder so far and q the quotient
\* digits so far.  The result is [q |-> quotient, r |-> TRUE iff the
\* remainder is not zero].
RECURSIVE BDivAt(_, _, _, _, _)

\* limb i of a has been brought down into r; the digit is d or less and
\* p = b * d
RECURSIVE BDivTry(_, _, _, _, _, _, _)
BDivTry(a, b, i, r, q, d, p) ==
  IF BCmp(p, r) = 1 THEN BDivTry(a, b, i, r, q, d - 1, BSub(p, b))
  ELSE BDivAt(a, b, i - 1, BSub(r, p), <<d>> \o q)

BDivBring(a, b, i, r, q) ==
  BDivTry(a, b, i, r, q, BGuessDigit(b, r), BMulSmall(b, BGuessDigit(b, r)))

BDivAt(a, b, i, r, q) ==
  IF i = 0 THEN [q |-> BNorm(q), r |-> r # <<>>]
  ELSE IF r = <<>> /\ a[i] = 0 THEN BDivAt(a, b, i - 1, r, <<0>> \o q)
  ELSE BDivBring(a, b, i, <<a[i]>> \o r, q)

\* b's top limb is at least Base/2: the top Len(b) - 1 limbs of a are the
\* first remainder
BDivNormal(a, b) ==
  IF Len(a) < Len(b) THEN [q |-> <<>>, r |-> a # <<>>]
  ELSE BDivAt(a, b, Len(a) - Len(b) + 1,
              BNorm(SubSeq(a, Len(a) - Len(b) + 2, Len(a))), <<>>)

\* the shift that brings b's top limb to Base/2 or more
BDivShift(b) == LimbBits - SmallBitLen(b[Len(b)])

\* [q |-> floor(a / b), r |-> TRUE iff b does not divide a], for b # 0
BDivMod(a, b) == BDivNormal(BShl(a, BDivShift(b)), BShl(b, BDivShift(b)))

----------------------------------------------------------------------------
(* JavaScript numbers: IEEE 754 binary64.  A value is (-1)^s * m * 2^e with *)
(* m a 53-bit significand (2^52 <= m < 2^53), or zero.  The values of the    *)
(* engine stay far inside the exponent range of binary64, so overflow,      *)
(* subnormals, infinities and NaN do not occur and are not represented.     *)

MantBits == 53

Zero == [s |-> 0, m |-> <<>>, e |-> 0]

IsZero(x) == x.m = <<>>

\* The binary64 value nearest to (-1)^s * (m + f) * 2^e, ties to even, where
\* 0 <= f < 1 and sticky says whether f # 0.
\* q has 53 or 54 bits
FRenormal(s, q, e) ==
  IF BBitLen(q) > MantBits
  THEN [s |-> s, m |-> BShr(q, 1), e |-> e + 1]
  ELSE [s |-> s, m |-> q, e |-> e]

\* q the 53 leading bits, half the bit below them, rest whether anything
\* nonzero lies below that
FRoundUp(s, q, e, half, rest) ==
  FRenormal(s, IF half /\ (rest \/ BBit(q, 0) = 1) THEN BAdd(q, <<1>>) ELSE q, e)

\* m # 0 has n bits
FRoundBits(s, m, e, sticky, n) ==
  IF n <= MantBits
  THEN [s |-> s, m |-> BShl(m, MantBits - n), e |-> e - (MantBits - n)]
  ELSE FRoundUp(s, BShr(m, n - MantBits), e + (n - MantBits),
                BBit(m, n - MantBits - 1) = 1,
                sticky \/ BLowNonZero(m, n - MantBits - 1))

FRound(s, m, e, sticky) ==
  IF m = <<>> THEN Zero ELSE FRoundBits(s, m, e, sticky, BBitLen(m))

\* an integer of the model as a number
FFromInt(n) ==
  FRound(IF n < 0 THEN 1 ELSE 0, BFromInt(IF n < 0 THEN -n ELSE n), 0, FALSE)

FNeg(x) == IF IsZero(x) THEN x ELSE [x EXCEPT !.s = 1 - x.s]

\* a + b
\* (-1)^sx * mx * 2^e + (-1)^sy * my * 2^e, c the order of mx and my
FAddOrdered(sx, mx, sy, my, e, c) ==
  FRound(IF sx = sy \/ c = 1 THEN sx ELSE sy,
         IF sx = sy THEN BAdd(mx, my)
         ELSE IF c = 1 THEN BSub(mx, my) ELSE BSub(my, mx),
         e, FALSE)

FAddAligned(sx, mx, sy, my, e) == FAddOrdered(sx, mx, sy, my, e, BCmp(mx, my))

\* x and y brought to the exponent e, the lesser of theirs
FAddAt(x, y, e) == FAddAligned(x.s, BShl(x.m, x.e - e), y.s, BShl(y.m, y.e - e), e)

FAdd(x, y) ==
  IF IsZero(x) THEN y
  ELSE IF IsZero(y) THEN x
  ELSE FAddAt(x, y, IF x.e < y.e THEN x.e ELSE y.e)

\* a - b
FSub(x, y) == FAdd(x, FNeg(y))

\* a * b
FMul(x, y) ==
  IF IsZero(x) \/ IsZero(y) THEN Zero
  ELSE FRound((x.s + y.s) % 2, BMul(x.m, y.m), x.e + y.e, FALSE)

\* a / b for b # 0
FDivRounded(s, d, e) == FRound(s, d.q, e, d.r)

FDiv(x, y) ==
  IF IsZero(x) THEN Zero
  ELSE FDivRounded((x.s + y.s) % 2, BDivMod(BShlLimbs(x.m, 4), y.m),
                   x.e - y.e - 4 * LimbBits)

\* order of |x| and |y|, neither zero: -1, 0 or 1
FCmpMagnitude(x, y) ==
  IF x.e > y.e THEN 1 ELSE IF x.e < y.e THEN -1 ELSE BCmp(x.m, y.m)

\* sign of a - b: -1, 0 or 1
FCmp(x, y) ==
  IF IsZero(x) THEN (IF IsZero(y) THEN 0 ELSE IF y.s = 1 THEN 1 ELSE -1)
  ELSE IF IsZero(y) THEN (IF x.s = 1 THEN -1 ELSE 1)
  ELSE IF x.s # y.s THEN (IF x.s = 1 THEN -1 ELSE 1)
  ELSE IF x.s = 0 THEN FCmpMagnitude(x, y) ELSE FCmpMagnitude(y, x)

FLt(x, y) == FCmp(x, y) = -1
FGt(x, y) == FCmp(x, y) = 1

\* whether the number is an integer
FIsInt(x) == IsZero(x) \/ x.e >= 0 \/ ~BLowNonZero(x.m, -x.e)

\* the integer an integer-valued number stands for (of TLC's integer range)
FToInt(x) ==
  IF IsZero(x) THEN 0
  ELSE LET a == IF x.e >= 0 THEN BShl(x.m, x.e) ELSE BShr(x.m, -x.e)
       IN  IF x.s = 1 THEN -BToInt(a) ELSE BToInt(a)

\* Math.round: the nearest integer, a half rounding towards +Infinity
\* fl the integer part of |x|, half the first bit of its fraction, rest
\* whether anything nonzero lies below that: a half goes towards +Infinity
MathRoundFrom(s, fl, half, rest) ==
  FRound(s, IF half /\ (s = 0 \/ rest) THEN BAdd(fl, <<1>>) ELSE fl, 0, FALSE)

MathRound(x) ==
  IF IsZero(x) \/ x.e >= 0 THEN x
  ELSE MathRoundFrom(x.s, BShr(x.m, -x.e), BBit(x.m, -x.e - 1) = 1,
                     BLowNonZero(x.m, -x.e - 1))

----------------------------------------------------------------------------
(* The static tables of src/src/lib/constants.ts.                           *)

PLATFORMS ==
  << [internalKey |-> "meta", name |-> "Meta Ads"],
     [internalKey |-> "google_search", name |-> "Google Search Ads"],
     [internalKey |-> "google_display", name |-> "Google Display YouTube"],
     [internalKey |-> "tiktok", name |-> "TikTok Ads"],
     [internalKey |-> "linkedin", name |-> "LinkedIn Ads"],
     [internalKey |-> "twitter", name |-> "Twitter X Ads"],
     [internalKey |-> "snapchat", name |-> "Snapchat Ads"] >>

OBJECTIVES ==
  << [internalKey |-> "awareness", name |-> "Awareness"],
     [internalKey |-> "engagement", name |-> "Traffic Engagement"],
     [internalKey |-> "conversions", name |-> "Conversions Sales"],
     [internalKey |-> "leads", name |-> "Leads"] >>

PlatformKey == {PLATFORMS[i].internalKey : i \in 1..Len(PLATFORMS)}

ObjectiveKey == {OBJECTIVES[i].internalKey : i \in 1..Len(OBJECTIVES)}

BASE_WEIGHTS ==
  [awareness |->
     [meta |-> 25, google_search |-> 0, google_display |-> 20, tiktok |-> 25,
      linkedin |-> 5, twitter |-> 10, snapchat |-> 15],
   engagement |->
     [meta |-> 25, google_search |-> 20, google_display |-> 5, tiktok |-> 20,
      linkedin |-> 10, twitter |-> 15, snapchat |-> 5],
   conversions |->
     [meta |-> 25, google_search |-> 35, google_display |-> 5, tiktok |-> 10,
      linkedin |-> 15, twitter |-> 5, snapchat |-> 5],
   leads |->
     [meta |-> 30, google_search |-> 30, linkedin |-> 20, tiktok |-> 10,
      google_display |-> 5, twitter |-> 3, snapchat |-> 2]]

FIXED_FUNNEL_SPLIT_RATIOS ==
  << [name |-> "Awareness", percentage |-> 40],
     [name |-> "Traffic", percentage |-> 35],
     [name |-> "Conversions", percentage |-> 25] >>

----------------------------------------------------------------------------
(* calculateAllocation, src/src/lib/constants.ts lines 135-286.             *)

\* PLATFORMS.find(p => p.internalKey === platformKey)?.name || platformKey
PlatformName(platformKey) ==
  IF \E i \in 1..Len(PLATFORMS) : PLATFORMS[i].internalKey = platformKey
  THEN PLATFORMS[CHOOSE i \in 1..Len(PLATFORMS) :
                   /\ PLATFORMS[i].internalKey = platformKey
                   /\ \A j \in 1..(i - 1) : PLATFORMS[j].internalKey # platformKey].name
  ELSE platformKey

\* results.sort((a, b) => b.budget - a.budget): one entry put in its place in
\* a sorted list, behind every entry the comparator does not order after it
\* (Array.prototype.sort is stable).
\* SortInsert that puts an entry ahead of the entries of equal budget
RECURSIVE SortInsert_AheadOfEquals(_, _)
SortInsert_AheadOfEquals(sorted, x) ==
  IF sorted = <<>> THEN <<x>>
  ELSE IF FCmp(x.budget, Head(sorted).budget) # -1 THEN <<x>> \o sorted
  ELSE <<Head(sorted)>> \o SortInsert_AheadOfEquals(Tail(sorted), x)

RECURSIVE SortInsert(_, _)
SortInsert(sorted, x) ==
  IF sorted = <<>> THEN <<x>>
  ELSE IF FCmp(x.budget, Head(sorted).budget) = 1 THEN <<x>> \o sorted
  ELSE <<Head(sorted)>> \o SortInsert(Tail(sorted), x)

RECURSIVE SortByBudgetDesc(_)
SortByBudgetDesc(results) ==
  IF results = <<>> THEN <<>>
  ELSE SortInsert(SortByBudgetDesc(SubSeq(results, 1, Len(results) - 1)),
                  results[Len(results)])

\* AbsorbRemainder without the reconciliation: the last entry keeps its share
AbsorbRemainder_Dropped(results, totalBudget, allocatedSum) == results

\* results[last].budget += (totalBudget - allocatedSum)
AbsorbRemainder(results, totalBudget, allocatedSum) ==
  IF Len(results) > 0
  THEN [results EXCEPT ![Len(results)].budget =
          FAdd(@, FSub(totalBudget, allocatedSum))]
  ELSE results

\* values.reduce((sum, val) => sum + val, 0)
RECURSIVE SumFrom(_, _)
SumFrom(sum, values) ==
  IF values = <<>> THEN sum ELSE SumFrom(FAdd(sum, Head(values)), Tail(values))

\* allocatedSum after the forEach: allocatedSum += allocatedBudget once per
\* entry pushed, in order, from 0
AllocatedSum(results) ==
  SumFrom(Zero, [index \in 1..Len(results) |-> results[index].budget])

\* What both allocation branches do with the entries pushed: the last one
\* absorbs the difference, then the entries are sorted.
AbsorbAndSort(results, totalBudget) ==
  SortByBudgetDesc(AbsorbRemainder(results, totalBudget, AllocatedSum(results)))

\* allocatedBudget of the entry at `index` of `length` (0-based index + 1):
\* every entry but the last is rounded
RoundUnlessLast(allocatedBudget, index, length) ==
  IF index < length THEN MathRound(allocatedBudget) ELSE allocatedBudget

\* (stage.percentage / 100) * totalBudget
FunnelShare(totalBudget, stage) ==
  FMul(FDiv(FFromInt(stage.percentage), FFromInt(100)), totalBudget)

\* The forEach over FIXED_FUNNEL_SPLIT_RATIOS (lines 152-167): the entry
\* pushed for each stage, in order.
FunnelEntries(totalBudget) ==
  [index \in 1..Len(FIXED_FUNNEL_SPLIT_RATIOS) |->
     [platform |-> FIXED_FUNNEL_SPLIT_RATIOS[index].name,
      allocationPercentage |-> FFromInt(FIXED_FUNNEL_SPLIT_RATIOS[index].percentage),
      budget |-> RoundUnlessLast(
                   FunnelShare(totalBudget, FIXED_FUNNEL_SPLIT_RATIOS[index]),
                   index, Len(FIXED_FUNNEL_SPLIT_RATIOS))]]

\* Rule B, lines 148-176
FullFunnelAllocation(totalBudget) ==
  AbsorbAndSort(FunnelEntries(totalBudget), totalBudget)

\* activeBenchmarks (lines 211-214): the positive values of one benchmark map
\* over selectedPlatforms, in order, one per entry of the list.
RECURSIVE ActiveBenchmarks(_, _)
ActiveBenchmarks(metric, selectedPlatforms) ==
  IF selectedPlatforms = <<>> THEN <<>>
  ELSE IF Head(selectedPlatforms) \in DOMAIN metric
          /\ FGt(metric[Head(selectedPlatforms)], Zero)
  THEN <<metric[Head(selectedPlatforms)]>>
       \o ActiveBenchmarks(metric, Tail(selectedPlatforms))
  ELSE ActiveBenchmarks(metric, Tail(selectedPlatforms))

\* averageBenchmark (line 215), a `number | undefined`: <<>> is undefined,
\* <<v>> the number v
AverageBenchmark(activeBenchmarks) ==
  IF Len(activeBenchmarks) > 0
  THEN <<FDiv(SumFrom(Zero, activeBenchmarks), FFromInt(Len(activeBenchmarks)))>>
  ELSE <<>>

\* AdjustWeight with the ratio upside down: own benchmark / average
AdjustWeight_Inverted(baseWeight, benchmark, averageBenchmark) ==
  IF FGt(benchmark, Zero) /\ averageBenchmark # <<>>
  THEN FMul(baseWeight, FDiv(benchmark, averageBenchmark[1]))
  ELSE baseWeight

\* AdjustWeight that drops a platform whose benchmark is not positive
AdjustWeight_ZeroWhenNotPositive(baseWeight, benchmark, averageBenchmark) ==
  IF FGt(benchmark, Zero) /\ averageBenchmark # <<>>
  THEN FMul(baseWeight, FDiv(averageBenchmark[1], benchmark))
  ELSE Zero

\* AdjustWeight that never adjusts
AdjustWeight_Unadjusted(baseWeight, benchmark, averageBenchmark) == baseWeight

\* Lines 216-218: the platform's own benchmark is defined here
AdjustWeight(baseWeight, benchmark, averageBenchmark) ==
  IF FGt(benchmark, Zero) /\ averageBenchmark # <<>>
  THEN FMul(baseWeight, FDiv(averageBenchmark[1], benchmark))
  ELSE baseWeight

\* One branch of lines 210-246: the weight adjusted by one benchmark map.
AdjustByMetric(baseWeight, metric, platformKey, selectedPlatforms) ==
  AdjustWeight(baseWeight, metric[platformKey],
               AverageBenchmark(ActiveBenchmarks(metric, selectedPlatforms)))

\* AdjustedWeight whose leads branch reads the cpc map
AdjustedWeight_LeadsReadCpc(objective, platformKey, selectedPlatforms, isAdvancedMode, benchmarks) ==
  IF ~isAdvancedMode THEN FFromInt(BASE_WEIGHTS[objective][platformKey])
  ELSE IF objective = "awareness" /\ platformKey \in DOMAIN benchmarks.cpm
  THEN AdjustByMetric(FFromInt(BASE_WEIGHTS[objective][platformKey]),
                      benchmarks.cpm, platformKey, selectedPlatforms)
  ELSE IF objective = "engagement" /\ platformKey \in DOMAIN benchmarks.cpc
  THEN AdjustByMetric(FFromInt(BASE_WEIGHTS[objective][platformKey]),
                      benchmarks.cpc, platformKey, selectedPlatforms)
  ELSE IF objective = "conversions" /\ platformKey \in DOMAIN benchmarks.cpa
  THEN AdjustByMetric(FFromInt(BASE_WEIGHTS[objective][platformKey]),
                      benchmarks.cpa, platformKey, selectedPlatforms)
  ELSE IF objective = "leads" /\ platformKey \in DOMAIN benchmarks.cpc
  THEN AdjustByMetric(FFromInt(BASE_WEIGHTS[objective][platformKey]),
                      benchmarks.cpc, platformKey, selectedPlatforms)
  ELSE FFromInt(BASE_WEIGHTS[objective][platformKey])

\* Step 1, lines 195-249: the weight stored for one selected platform.
AdjustedWeight(objective, platformKey, selectedPlatforms, isAdvancedMode, benchmarks) ==
  IF ~isAdvancedMode THEN FFromInt(BASE_WEIGHTS[objective][platformKey])
  ELSE IF objective = "awareness" /\ platformKey \in DOMAIN benchmarks.cpm
  THEN AdjustByMetric(FFromInt(BASE_WEIGHTS[objective][platformKey]),
                      benchmarks.cpm, platformKey, selectedPlatforms)
  ELSE IF objective = "engagement" /\ platformKey \in DOMAIN benchmarks.cpc
  THEN AdjustByMetric(FFromInt(BASE_WEIGHTS[objective][platformKey]),
                      benchmarks.cpc, platformKey, selectedPlatforms)
  ELSE IF objective = "conversions" /\ platformKey \in DOMAIN benchmarks.cpa
  THEN AdjustByMetric(FFromInt(BASE_WEIGHTS[objective][platformKey]),
                      benchmarks.cpa, platformKey, selectedPlatforms)
  ELSE IF objective = "leads" /\ platformKey \in DOMAIN benchmarks.cpa
  THEN AdjustByMetric(FFromInt(BASE_WEIGHTS[objective][platformKey]),
                      benchmarks.cpa, platformKey, selectedPlatforms)
  ELSE FFromInt(BASE_WEIGHTS[objective][platformKey])

\* The places of selectedPlatforms where a key enters platformWeights: the
\* first place of every selected platform, in order.  An object lists its
\* keys in insertion order, and assigning to a key again does not move it.
FirstPlaces(selectedPlatforms) ==
  SelectSeq([i \in 1..Len(selectedPlatforms) |-> i],
            LAMBDA i : \A j \in 1..(i - 1) : selectedPlatforms[j] # selectedPlatforms[i])

\* platformWeights after the first forEach (lines 192-249)
PlatformWeights(objective, selectedPlatforms, isAdvancedMode, benchmarks) ==
  [platformKey \in {selectedPlatforms[i] : i \in 1..Len(selectedPlatforms)} |->
     AdjustedWeight(objective, platformKey, selectedPlatforms, isAdvancedMode,
                    benchmarks)]

\* Object.values(platformWeights)
WeightValues(platformWeights, selectedPlatforms, places) ==
  [n \in 1..Len(places) |-> platformWeights[selectedPlatforms[places[n]]]]

\* Object.values(platformWeights).reduce((sum, weight) => sum + weight, 0)
SumOfSelectedWeights(platformWeights, selectedPlatforms) ==
  SumFrom(Zero, WeightValues(platformWeights, selectedPlatforms,
                             FirstPlaces(selectedPlatforms)))

\* AllocationEntry with the percentage taken from the amount allocated
AllocationEntry_PercentFromBudget(totalBudget, selectedPlatforms, index, normalizedWeight) ==
  [platform |-> PlatformName(selectedPlatforms[index]),
   allocationPercentage |->
     FMul(FDiv(RoundUnlessLast(FMul(normalizedWeight, totalBudget), index,
                               Len(selectedPlatforms)),
               totalBudget),
          FFromInt(100)),
   budget |-> RoundUnlessLast(FMul(normalizedWeight, totalBudget), index,
                              Len(selectedPlatforms))]

\* Lines 263-274: the entry pushed for the platform at `index`
AllocationEntry(totalBudget, selectedPlatforms, index, normalizedWeight) ==
  [platform |-> PlatformName(selectedPlatforms[index]),
   allocationPercentage |-> FMul(normalizedWeight, FFromInt(100)),
   budget |-> RoundUnlessLast(FMul(normalizedWeight, totalBudget), index,
                              Len(selectedPlatforms))]

\* Steps 2 to 4, the forEach of lines 261-276: the entry pushed for each
\* element of selectedPlatforms, in order.
AllocationEntries(totalBudget, selectedPlatforms, platformWeights, sumOfSelectedWeights) ==
  [index \in 1..Len(selectedPlatforms) |->
     AllocationEntry(totalBudget, selectedPlatforms, index,
                     FDiv(platformWeights[selectedPlatforms[index]],
                          sumOfSelectedWeights))]

\* AllocateNormalized that rejects a selection as soon as one weight is 0
AllocateNormalized_AnyZero(totalBudget, selectedPlatforms, platformWeights, sumOfSelectedWeights) ==
  IF \E p \in DOMAIN platformWeights : IsZero(platformWeights[p]) THEN <<>>
  ELSE AbsorbAndSort(AllocationEntries(totalBudget, selectedPlatforms,
                                       platformWeights, sumOfSelectedWeights),
                     totalBudget)

\* Lines 253-285: the zero check and the allocation
AllocateNormalized(totalBudget, selectedPlatforms, platformWeights, sumOfSelectedWeights) ==
  IF IsZero(sumOfSelectedWeights) THEN <<>>
  ELSE AbsorbAndSort(AllocationEntries(totalBudget, selectedPlatforms,
                                       platformWeights, sumOfSelectedWeights),
                     totalBudget)

\* Lines 251-285, platformWeights filled
AllocateWeighted(totalBudget, selectedPlatforms, platformWeights) ==
  AllocateNormalized(totalBudget, selectedPlatforms, platformWeights,
                     SumOfSelectedWeights(platformWeights, selectedPlatforms))

\* Multi-channel allocation, lines 191-285
MultiChannelAllocation(totalBudget, objective, selectedPlatforms, isAdvancedMode, benchmarks) ==
  AllocateWeighted(totalBudget, selectedPlatforms,
                   PlatformWeights(objective, selectedPlatforms, isAdvancedMode,
                                   benchmarks))

\* Single-channel allocation, lines 182-189
SingleChannelAllocation(totalBudget, selectedPlatforms) ==
  << [platform |-> PlatformName(selectedPlatforms[1]),
      allocationPercentage |-> FFromInt(100),
      budget |-> totalBudget] >>

\* calculateAllocation with the single-platform rule ahead of the funnel rule
calculateAllocation_SingleFirst(totalBudget, objective, selectedPlatforms, isAdvancedMode, benchmarks, isFullFunnelEnabled) ==
  IF FCmp(totalBudget, Zero) # 1 \/ Len(selectedPlatforms) = 0 THEN <<>>
  ELSE IF Len(selectedPlatforms) = 1
  THEN SingleChannelAllocation(totalBudget, selectedPlatforms)
  ELSE IF isFullFunnelEnabled THEN FullFunnelAllocation(totalBudget)
  ELSE MultiChannelAllocation(totalBudget, objective, selectedPlatforms,
                              isAdvancedMode, benchmarks)

\* calculateAllocation without the single-platform rule
calculateAllocation_NoSingleRule(totalBudget, objective, selectedPlatforms, isAdvancedMode, benchmarks, isFullFunnelEnabled) ==
  IF FCmp(totalBudget, Zero) # 1 \/ Len(selectedPlatforms) = 0 THEN <<>>
  ELSE IF isFullFunnelEnabled THEN FullFunnelAllocation(totalBudget)
  ELSE MultiChannelAllocation(totalBudget, objective, selectedPlatforms,
                              isAdvancedMode, benchmarks)

\* calculateAllocation with the funnel rule ahead of the input check
calculateAllocation_FunnelFirst(totalBudget, objective, selectedPlatforms, isAdvancedMode, benchmarks, isFullFunnelEnabled) ==
  IF isFullFunnelEnabled THEN FullFunnelAllocation(totalBudget)
  ELSE IF FCmp(totalBudget, Zero) # 1 \/ Len(selectedPlatforms) = 0 THEN <<>>
  ELSE IF Len(selectedPlatforms) = 1
  THEN SingleChannelAllocation(totalBudget, selectedPlatforms)
  ELSE MultiChannelAllocation(totalBudget, objective, selectedPlatforms,
                              isAdvancedMode, benchmarks)

calculateAllocation(totalBudget, objective, selectedPlatforms, isAdvancedMode, benchmarks, isFullFunnelEnabled) ==
  IF FCmp(totalBudget, Zero) # 1 \/ Len(selectedPlatforms) = 0 THEN <<>>
  ELSE IF isFullFunnelEnabled THEN FullFunnelAllocation(totalBudget)
  ELSE IF Len(selectedPlatforms) = 1
  THEN SingleChannelAllocation(totalBudget, selectedPlatforms)
  ELSE MultiChannelAllocation(totalBudget, objective, selectedPlatforms,
                              isAdvancedMode, benchmarks)

----------------------------------------------------------------------------
(* The calls checked.  calculateAllocation is a pure function: a behaviour  *)
(* is one call, from its arguments (Init) to its return value (Call).       *)

VARIABLES totalBudget, objective, selectedPlatforms, isAdvancedMode, benchmarks, isFullFunnelEnabled, results, pc, toast, lastChecked

vars == <<totalBudget, objective, selectedPlatforms, isAdvancedMode, benchmarks, isFullFunnelEnabled, results, pc, toast, lastChecked>>

\* the longest selectedPlatforms list of the calls
MaxSelected == 3

\* the largest benchmark value of the calls
MaxBenchmark == 2

\* totalBudget of the calls: not positive, small, and of the size the form
\* admits (1000 and more)
Budgets == {-1, 0, 1, 90, 100, 1000, 1024, 100000}

\* the platforms the multi-channel calls select among: one of weight 0 under
\* awareness, three of equal weight under conversions
PlatformPool == {"google_search", "google_display", "twitter", "snapchat"}

RECURSIVE SeqsOfLen(_, _)
SeqsOfLen(S, n) ==
  IF n = 0 THEN {<<>>}
  ELSE {Append(q, x) : q \in SeqsOfLen(S, n - 1), x \in S}

SeqsUpTo(S, n) == UNION {SeqsOfLen(S, k) : k \in 0..n}

\* a benchmark map from the values typed in: an integer per platform that has one
BenchmarkMap(values) == [p \in DOMAIN values |-> FFromInt(values[p])]

\* the benchmark maps over the platforms of S: each platform has no value, or
\* one of -1 .. MaxBenchmark
BenchmarkMaps(S) ==
  UNION {{BenchmarkMap(v) : v \in [D -> -1..MaxBenchmark]} : D \in SUBSET S}

EmptyMap == BenchmarkMap([p \in {} |-> 0])

NoBenchmarks == [cpm |-> EmptyMap, cpc |-> EmptyMap, cpa |-> EmptyMap]

\* a map that gives some selected and some unselected platforms a value
DecoyMap == BenchmarkMap([meta |-> 7, google_display |-> 2, twitter |-> 1])

\* getBenchmarkType of the form: the metric the objective reads
getBenchmarkType(o) ==
  IF o = "awareness" THEN "cpm"
  ELSE IF o = "engagement" THEN "cpc"
  ELSE IF o = "conversions" \/ o = "leads" THEN "cpa"
  ELSE ""

\* the objective's metric is m, the two other maps are `other`
BenchmarkInputs(o, m, other) ==
  [k \in {"cpm", "cpc", "cpa"} |-> IF k = getBenchmarkType(o) THEN m ELSE other]

Request(t, o, sel, adv, b, ff) ==
  [totalBudget |-> FFromInt(t), objective |-> o, selectedPlatforms |-> sel,
   isAdvancedMode |-> adv, benchmarks |-> b, isFullFunnelEnabled |-> ff]

\* any budget, objective, flags; none, one or several platforms
ModeRequests ==
  { Request(t, o, sel, adv,
              IF typed THEN BenchmarkInputs(o, DecoyMap, EmptyMap) ELSE NoBenchmarks,
              ff) :
      t \in Budgets, o \in ObjectiveKey,
      sel \in {<<>>, <<"google_search">>, <<"meta">>, <<"linkedin", "meta">>},
      adv \in BOOLEAN, typed \in BOOLEAN, ff \in BOOLEAN }

\* several platforms, base weights
MultiRequests ==
  { Request(t, o, sel, FALSE, NoBenchmarks, FALSE) :
      t \in {b \in Budgets : b > 0}, o \in ObjectiveKey,
      sel \in SeqsUpTo(PlatformPool, MaxSelected) \ SeqsUpTo(PlatformPool, 1) }

\* several platforms, advanced mode, every benchmark map over three platforms
\* for the objective's metric
AdvancedRequests ==
  { Request(1000, o, sel, TRUE, BenchmarkInputs(o, m, other), FALSE) :
      o \in ObjectiveKey,
      sel \in { <<"google_display", "twitter">>,
                <<"twitter", "google_display", "snapchat", "google_search">> },
      m \in BenchmarkMaps({"google_display", "twitter", "snapchat"}),
      other \in {EmptyMap, DecoyMap} }

Requests == ModeRequests \cup MultiRequests \cup AdvancedRequests

Init ==
  \E r \in Requests :
    /\ totalBudget = r.totalBudget
    /\ objective = r.objective
    /\ selectedPlatforms = r.selectedPlatforms
    /\ isAdvancedMode = r.isAdvancedMode
    /\ benchmarks = r.benchmarks
    /\ isFullFunnelEnabled = r.isFullFunnelEnabled
    /\ results = <<>>
    /\ pc = "call"
    /\ toast = ""
    /\ lastChecked = <<>>

Call_PopsLast ==
  /\ pc = "call"
  /\ results' = calculateAllocation(totalBudget, objective, selectedPlatforms, isAdvancedMode, benchmarks, isFullFunnelEnabled)
  /\ pc' = "return"
  /\ selectedPlatforms' = SubSeq(selectedPlatforms, 1, Len(selectedPlatforms) - 1)
  /\ UNCHANGED <<totalBudget, objective, isAdvancedMode, benchmarks, isFullFunnelEnabled, toast, lastChecked>>

Call ==
  /\ pc = "call"
  /\ results' = calculateAllocation(totalBudget, objective, selectedPlatforms, isAdvancedMode, benchmarks, isFullFunnelEnabled)
  /\ pc' = "return"
  /\ UNCHANGED <<totalBudget, objective, selectedPlatforms, isAdvancedMode, benchmarks, isFullFunnelEnabled, toast, lastChecked>>

Next == Call

Spec == Init /\ [][Next]_vars

\* Calls with a benchmark that is no integer: 0.1, the number parseFloat reads
\* from the text 0.1
Tenth == FDiv(FFromInt(1), FFromInt(10))

\* three distinct platforms in advanced mode, some or all of them with the
\* benchmark 0.1 for the objective's metric
DecimalRequests ==
  { [totalBudget |-> FFromInt(1000), objective |-> o, selectedPlatforms |-> sel,
     isAdvancedMode |-> TRUE,
     benchmarks |-> BenchmarkInputs(o, [p \in D |-> Tenth], EmptyMap),
     isFullFunnelEnabled |-> FALSE] :
      o \in ObjectiveKey,
      sel \in {q \in SeqsOfLen(PlatformPool, 3) : \A i, j \in 1..3 : q[i] = q[j] => i = j},
      D \in SUBSET {"google_search", "google_display", "snapchat"} }

InitDecimal ==
  \E r \in DecimalRequests :
    /\ totalBudget = r.totalBudget
    /\ objective = r.objective
    /\ selectedPlatforms = r.selectedPlatforms
    /\ isAdvancedMode = r.isAdvancedMode
    /\ benchmarks = r.benchmarks
    /\ isFullFunnelEnabled = r.isFullFunnelEnabled
    /\ results = <<>>
    /\ pc = "call"
    /\ toast = ""
    /\ lastChecked = <<>>

SpecDecimal == InitDecimal /\ [][Next]_vars

----------------------------------------------------------------------------
(* The form, BudgetAllocationTool.  Its state is the useState cells (lines  *)
(* 361-367); allocationResults is `results`, selectedObjective is           *)
(* `objective`.  toast is the message the last event raised (showError,     *)
(* showSuccess), "" when it raised none.  lastChecked is history, not form  *)
(* state: the platforms checked since the last reset, each once, in the     *)
(* order of their latest check.  pc tells what the last event was: "form"   *)
(* an edit, "rejected" a handleCalculate that validateInputs stopped,       *)
(* "return" a handleCalculate that invoked calculateAllocation.             *)

\* the value '' of totalBudget, and the number NaN
EmptyString == [string |-> <<>>]

NaN == [nan |-> TRUE]

\* typeof x === 'number' for a value of the budget cell
IsNumber(x) == x # EmptyString

DigitChars == <<"0", "1", "2", "3", "4", "5", "6", "7", "8", "9">>

IsDigit(c) == \E d \in 1..Len(DigitChars) : DigitChars[d] = c

DigitOf(c) == (CHOOSE d \in 1..Len(DigitChars) : DigitChars[d] = c) - 1

\* how many digits the text has from position i on
RECURSIVE DigitRun(_, _)
DigitRun(text, i) ==
  IF i > Len(text) THEN 0
  ELSE IF IsDigit(text[i]) THEN 1 + DigitRun(text, i + 1) ELSE 0

\* how many digits follow a decimal point at position i
FractionRun(text, i) ==
  IF i > Len(text) THEN 0
  ELSE IF text[i] = "." THEN DigitRun(text, i + 1) ELSE 0

\* the digits text[i..j] read as a decimal integer that continues acc
RECURSIVE DigitsValue(_, _, _, _)
DigitsValue(text, i, j, acc) ==
  IF i > j THEN acc
  ELSE DigitsValue(text, i + 1, j, acc * 10 + DigitOf(text[i]))

RECURSIVE Pow10(_)
Pow10(n) == IF n = 0 THEN 1 ELSE 10 * Pow10(n - 1)

\* the number nearest to the decimal literal with n1 digits at position
\* start and n2 digits after the point; NaN when there is no digit
ParseDecimal(text, start, n1, n2) ==
  IF n1 + n2 = 0 THEN NaN
  ELSE FDiv(FFromInt(DigitsValue(text, start + n1 + 1, start + n1 + n2,
                                 DigitsValue(text, start, start + n1 - 1, 0))),
            FFromInt(Pow10(n2)))

ParseUnsigned(text, start) ==
  ParseDecimal(text, start, DigitRun(text, start),
               FractionRun(text, start + DigitRun(text, start)))

ParseNegated(x) == IF x = NaN THEN NaN ELSE FNeg(x)

\* parseFloat of a text given by its characters: the longest prefix that is
\* a sign, digits and a fraction (the texts typed have no exponent and no
\* blanks)
parseFloat(text) ==
  IF text = <<>> THEN NaN
  ELSE IF text[1] = "-" THEN ParseNegated(ParseUnsigned(text, 2))
  ELSE IF text[1] = "+" THEN ParseUnsigned(text, 2)
  ELSE ParseUnsigned(text, 1)

\* x || '' of a number x: '' for NaN and 0
OrEmptyString(x) == IF x = NaN THEN EmptyString ELSE IF IsZero(x) THEN EmptyString ELSE x

\* the texts typed into the budget field
TypedBudgets ==
  { <<>>, <<"0">>, <<"9", "9", "9">>, <<"1", "0", "0", "0">>,
    <<"1", "0", "0", "0", ".", "5">> }

\* the texts typed into a benchmark field
TypedBenchmarks == { <<>>, <<"-", "1">> }

\* the checkboxes and the objectives the sessions use
FormPlatforms == {"google_search", "google_display"}

FormObjectives == ObjectiveKey

MessageBudget == "Total Budget must be a number and at least 1000."

MessagePlatform == "Please select at least one platform."

MessageNegative == "Benchmark values cannot be negative."

MessageZeroWeight == "Cannot allocate budget: all selected platforms have zero weight for the chosen objective."

MessageNoResult == "Could not calculate allocation. Please check your inputs."

MessageAllocated == "Budget allocated successfully!"

MessageReset == "Form reset!"

InitForm ==
  /\ totalBudget = EmptyString
  /\ objective = "awareness"
  /\ selectedPlatforms = <<>>
  /\ isAdvancedMode = FALSE
  /\ isFullFunnelEnabled = FALSE
  /\ benchmarks = NoBenchmarks
  /\ results = <<>>
  /\ pc = "form"
  /\ toast = ""
  /\ lastChecked = <<>>

\* An edit raises no message.  The sessions checked edit the fields while no
\* results are shown: handleCalculate writes no cell an edit or
\* validateInputs reads, so the form states it is clicked in are the same.
\* The Full Funnel switch, which the shown table reads, is also used while
\* results are shown.
Edited ==
  /\ results = <<>>
  /\ pc' = "form"
  /\ toast' = ""
  /\ UNCHANGED results

\* onChange of the budget field (line 519)
setTotalBudget ==
  /\ Edited
  /\ \E text \in TypedBudgets : totalBudget' = OrEmptyString(parseFloat(text))
  /\ UNCHANGED <<objective, selectedPlatforms, isAdvancedMode, benchmarks, isFullFunnelEnabled, lastChecked>>

\* the objective radio group, disabled while Full Funnel is on (lines 529-546)
setSelectedObjective ==
  /\ Edited
  /\ ~isFullFunnelEnabled
  /\ \E o \in FormObjectives : objective' = o
  /\ UNCHANGED <<totalBudget, selectedPlatforms, isAdvancedMode, benchmarks, isFullFunnelEnabled, lastChecked>>

\* the Full Funnel switch (lines 574-577)
setIsFullFunnelEnabled ==
  /\ pc' = "form"
  /\ toast' = ""
  /\ UNCHANGED results
  /\ isFullFunnelEnabled' = ~isFullFunnelEnabled
  /\ UNCHANGED <<totalBudget, objective, selectedPlatforms, isAdvancedMode, benchmarks, lastChecked>>

Without(list, platformKey) == SelectSeq(list, LAMBDA key : key # platformKey)

handlePlatformChange_Prepend(prev, platformKey, checked) ==
  IF checked THEN <<platformKey>> \o prev ELSE Without(prev, platformKey)

\* handlePlatformChange (lines 369-373): the new selectedPlatforms
handlePlatformChange(prev, platformKey, checked) ==
  IF checked THEN Append(prev, platformKey) ELSE Without(prev, platformKey)

\* a platform checkbox (lines 598-601): checked = {isSelected}, so the event
\* carries the opposite of whether the platform is selected
PlatformCheckbox ==
  /\ Edited
  /\ \E platformKey \in FormPlatforms :
       \E checked \in BOOLEAN :
         /\ checked = (\A i \in 1..Len(selectedPlatforms) : selectedPlatforms[i] # platformKey)
         /\ selectedPlatforms' = handlePlatformChange(selectedPlatforms, platformKey, checked)
         /\ lastChecked' = IF checked THEN Append(Without(lastChecked, platformKey), platformKey)
                           ELSE lastChecked
  /\ UNCHANGED <<totalBudget, objective, isAdvancedMode, benchmarks, isFullFunnelEnabled>>

\* the Advanced Mode switch, rendered for several platforms with Full Funnel
\* off (lines 614-623)
setIsAdvancedMode ==
  /\ Edited
  /\ ~isFullFunnelEnabled
  /\ Len(selectedPlatforms) > 1
  /\ isAdvancedMode' = ~isAdvancedMode
  /\ UNCHANGED <<totalBudget, objective, selectedPlatforms, benchmarks, isFullFunnelEnabled, lastChecked>>

\* a map with platformKey set to numValue, or left undefined when it is NaN
WithBenchmark(map, platformKey, numValue) ==
  IF numValue = NaN THEN [p \in DOMAIN map \ {platformKey} |-> map[p]]
  ELSE [p \in DOMAIN map \cup {platformKey} |-> IF p = platformKey THEN numValue ELSE map[p]]

\* handleBenchmarkChange (lines 375-388): the new benchmarks
handleBenchmarkChange(prev, platformKey, type, value) ==
  [prev EXCEPT ![type] = WithBenchmark(prev[type], platformKey, parseFloat(value))]

\* a benchmark field, rendered for each selected platform and the
\* objective's metric in advanced mode (lines 629-656)
BenchmarkField ==
  /\ Edited
  /\ ~isFullFunnelEnabled
  /\ isAdvancedMode
  /\ Len(selectedPlatforms) > 1
  /\ \E i \in 1..Len(selectedPlatforms) :
       \E value \in TypedBenchmarks :
         benchmarks' = handleBenchmarkChange(benchmarks, selectedPlatforms[i], getBenchmarkType(objective), value)
  /\ UNCHANGED <<totalBudget, objective, selectedPlatforms, isAdvancedMode, isFullFunnelEnabled, lastChecked>>

\* benchmarks.cpm[platformKey] !== undefined && ... < 0, for the map given
IsNegativeAt(map, platformKey) ==
  IF platformKey \in DOMAIN map THEN FLt(map[platformKey], Zero) ELSE FALSE

\* hasNegativeBenchmark after the forEach of lines 403-415
hasNegativeBenchmark ==
  \E i \in 1..Len(selectedPlatforms) :
    \/ objective = "awareness" /\ IsNegativeAt(benchmarks.cpm, selectedPlatforms[i])
    \/ objective = "engagement" /\ IsNegativeAt(benchmarks.cpc, selectedPlatforms[i])
    \/ (objective = "conversions" \/ objective = "leads") /\ IsNegativeAt(benchmarks.cpa, selectedPlatforms[i])

\* effectiveWeightsSum after the forEach of lines 424-428, from position i on
RECURSIVE effectiveWeightsSum(_)
effectiveWeightsSum(i) ==
  IF i > Len(selectedPlatforms) THEN 0
  ELSE BASE_WEIGHTS[objective][selectedPlatforms[i]] + effectiveWeightsSum(i + 1)

validateInputs_NoNegativeCheck ==
  IF ~IsNumber(totalBudget) THEN MessageBudget
  ELSE IF FLt(totalBudget, FFromInt(1000)) THEN MessageBudget
  ELSE IF Len(selectedPlatforms) = 0 THEN MessagePlatform
  ELSE IF ~isFullFunnelEnabled /\ Len(selectedPlatforms) > 1 /\ effectiveWeightsSum(1) = 0
    THEN MessageZeroWeight
  ELSE ""

validateInputs_PlatformsFirst ==
  IF Len(selectedPlatforms) = 0 THEN MessagePlatform
  ELSE IF ~IsNumber(totalBudget) THEN MessageBudget
  ELSE IF FLt(totalBudget, FFromInt(1000)) THEN MessageBudget
  ELSE IF ~isFullFunnelEnabled /\ isAdvancedMode /\ Len(selectedPlatforms) > 1 /\ hasNegativeBenchmark
    THEN MessageNegative
  ELSE IF ~isFullFunnelEnabled /\ Len(selectedPlatforms) > 1 /\ effectiveWeightsSum(1) = 0
    THEN MessageZeroWeight
  ELSE ""

validateInputs_NoPlatformCheck ==
  IF ~IsNumber(totalBudget) THEN MessageBudget
  ELSE IF FLt(totalBudget, FFromInt(1000)) THEN MessageBudget
  ELSE IF ~isFullFunnelEnabled /\ isAdvancedMode /\ Len(selectedPlatforms) > 1 /\ hasNegativeBenchmark
    THEN MessageNegative
  ELSE IF ~isFullFunnelEnabled /\ Len(selectedPlatforms) > 1 /\ effectiveWeightsSum(1) = 0
    THEN MessageZeroWeight
  ELSE ""

\* validateInputs (lines 390-437): the message of showError when it returns
\* false, "" when it returns true
validateInputs ==
  IF ~IsNumber(totalBudget) THEN MessageBudget
  ELSE IF FLt(totalBudget, FFromInt(1000)) THEN MessageBudget
  ELSE IF Len(selectedPlatforms) = 0 THEN MessagePlatform
  ELSE IF ~isFullFunnelEnabled /\ isAdvancedMode /\ Len(selectedPlatforms) > 1 /\ hasNegativeBenchmark
    THEN MessageNegative
  ELSE IF ~isFullFunnelEnabled /\ Len(selectedPlatforms) > 1 /\ effectiveWeightsSum(1) = 0
    THEN MessageZeroWeight
  ELSE ""

Rejected_KeepsTable(message) ==
  /\ UNCHANGED results
  /\ toast' = message
  /\ pc' = "rejected"

\* lines 440-443: validation failed
Rejected(message) ==
  /\ results' = <<>>
  /\ toast' = message
  /\ pc' = "rejected"

\* lines 454-459: what the form does with the engine's return value
Allocated(r) ==
  /\ results' = IF r = <<>> THEN results ELSE r
  /\ toast' = IF r = <<>> THEN MessageNoResult ELSE MessageAllocated
  /\ pc' = "return"

\* the isAdvancedMode argument of the call (line 449)
AdvancedArgument == isAdvancedMode /\ Len(selectedPlatforms) > 1

\* the call of lines 445-452
EngineCall ==
  calculateAllocation(totalBudget, objective, selectedPlatforms,
                      AdvancedArgument, benchmarks, isFullFunnelEnabled)

\* handleCalculate (lines 439-460)
handleCalculate ==
  /\ IF validateInputs # "" THEN Rejected(validateInputs) ELSE Allocated(EngineCall)
  /\ UNCHANGED <<totalBudget, objective, selectedPlatforms, isAdvancedMode, benchmarks, isFullFunnelEnabled, lastChecked>>

handleReset_KeepsBenchmarks ==
  /\ totalBudget' = EmptyString
  /\ objective' = "awareness"
  /\ selectedPlatforms' = <<>>
  /\ isAdvancedMode' = FALSE
  /\ isFullFunnelEnabled' = FALSE
  /\ UNCHANGED benchmarks
  /\ results' = <<>>
  /\ toast' = MessageReset
  /\ pc' = "form"
  /\ lastChecked' = <<>>

\* handleReset (lines 462-471)
handleReset ==
  /\ totalBudget' = EmptyString
  /\ objective' = "awareness"
  /\ selectedPlatforms' = <<>>
  /\ isAdvancedMode' = FALSE
  /\ isFullFunnelEnabled' = FALSE
  /\ benchmarks' = NoBenchmarks
  /\ results' = <<>>
  /\ toast' = MessageReset
  /\ pc' = "form"
  /\ lastChecked' = <<>>

\* the results table (lines 481-482, 683-690): whether it is rendered, and
\* its heading
shouldShowFunnelSplitTable == isFullFunnelEnabled

TableShown == Len(results) > 0

TableHeading ==
  IF shouldShowFunnelSplitTable THEN "Full Funnel Allocation" ELSE "Budget Allocation Results"

NextForm ==
  \/ setTotalBudget
  \/ setSelectedObjective
  \/ setIsFullFunnelEnabled
  \/ PlatformCheckbox
  \/ setIsAdvancedMode
  \/ BenchmarkField
  \/ handleCalculate
  \/ handleReset

SpecForm == InitForm /\ [][NextForm]_vars

----------------------------------------------------------------------------
(* What the claims speak of.                                                *)

Returned == pc = "return"

\* totalBudget as an integer (every budget of the calls is one)
Budget == FToInt(totalBudget)

Selected == {selectedPlatforms[i] : i \in 1..Len(selectedPlatforms)}

DistinctSelection == Cardinality(Selected) = Len(selectedPlatforms)

MultiChannelCall ==
  /\ ~isFullFunnelEnabled
  /\ Len(selectedPlatforms) >= 2
  /\ Budget > 0

\* the returned entry of a platform or stage, by its label
EntryOf(label) ==
  results[CHOOSE j \in 1..Len(results) : results[j].platform = label]

HasEntry(label) == \E j \in 1..Len(results) : results[j].platform = label

\* n / d rounded to the nearest integer, an exact half up (n >= 0, d > 0)
RoundHalfUp(n, d) == (2 * n + d) \div (2 * d)

\* Exact sums of numbers: (p - n) * 2^e, nothing rounded.
ExactAdd(acc, x) ==
  IF IsZero(x) THEN acc
  ELSE LET e == IF acc.e < x.e THEN acc.e ELSE x.e
           p1 == BShl(acc.p, acc.e - e)
           n1 == BShl(acc.n, acc.e - e)
           xm == BShl(x.m, x.e - e)
       IN  IF x.s = 0 THEN [p |-> BAdd(p1, xm), n |-> n1, e |-> e]
           ELSE [p |-> p1, n |-> BAdd(n1, xm), e |-> e]

RECURSIVE ExactSumFrom(_, _)
ExactSumFrom(acc, values) ==
  IF values = <<>> THEN acc
  ELSE ExactSumFrom(ExactAdd(acc, Head(values)), Tail(values))

\* the budget fields of the result add up to x, exactly
BudgetsSumTo(x) ==
  LET d == ExactSumFrom([p |-> <<>>, n |-> <<>>, e |-> 0],
                        [j \in 1..Len(results) |-> results[j].budget] \o <<FNeg(x)>>)
  IN  BCmp(d.p, d.n) = 0

\* the base weights of the selection, as integers
BaseWeight(platformKey) == BASE_WEIGHTS[objective][platformKey]

RECURSIVE SumOver(_, _)
SumOver(f, S) ==
  IF S = {} THEN 0
  ELSE LET x == CHOOSE y \in S : TRUE IN f[x] + SumOver(f, S \ {x})

BaseWeightSum == SumOver([p \in Selected |-> BaseWeight(p)], Selected)

\* the budget fields added as JavaScript adds them, in the order returned
BudgetsAddedUp ==
  SumFrom(Zero, [j \in 1..Len(results) |-> results[j].budget])

\* C1. Conservation: whenever a call with a positive integer totalBudget and
\* a non-empty platform list returns a non-empty result, the budget fields of
\* the returned entries add up to totalBudget exactly, in every mode (the sum
\* taken exactly, or else as floating-point addition in the order returned
\* gives it).
C1_Conservation ==
  (Returned /\ Budget > 0 /\ selectedPlatforms # <<>> /\ results # <<>>)
    => (BudgetsSumTo(totalBudget) \/ BudgetsAddedUp = totalBudget)

\* Conservation where it does hold: full-funnel and single-platform calls.
ConservationOutsideMultiChannel ==
  (Returned /\ Budget > 0 /\ selectedPlatforms # <<>> /\ results # <<>>
     /\ (isFullFunnelEnabled \/ Len(selectedPlatforms) = 1))
    => BudgetsSumTo(totalBudget)

\* the amount the claim gives entry i of the selection (base weights)
RoundedShare(i) ==
  RoundHalfUp(BaseWeight(selectedPlatforms[i]) * Budget, BaseWeightSum)

RECURSIVE SumOfRoundedShares(_)
SumOfRoundedShares(n) ==
  IF n = 0 THEN 0 ELSE RoundedShare(n) + SumOfRoundedShares(n - 1)

\* C2. Rounding with remainder absorption: in multi-platform weighted mode
\* every selected platform but the last in input order gets share *
\* totalBudget rounded to the nearest integer, an exact half up, and the last
\* platform in input order gets totalBudget minus the sum of those rounded
\* amounts (stated for base weights and a selection without repetition).
C2_RoundingRemainder ==
  (Returned /\ MultiChannelCall /\ ~isAdvancedMode /\ DistinctSelection
     /\ results # <<>>)
    => LET n == Len(selectedPlatforms) IN
       /\ \A i \in 1..(n - 1) :
            EntryOf(PlatformName(selectedPlatforms[i])).budget
              = FFromInt(RoundedShare(i))
       /\ EntryOf(PlatformName(selectedPlatforms[n])).budget
            = FFromInt(Budget - SumOfRoundedShares(n - 1))

\* the three entries the claim gives a full-funnel call
FunnelEntry(name, percentage, amount) ==
  [platform |-> name, allocationPercentage |-> FFromInt(percentage),
   budget |-> FFromInt(amount)]

\* C3. Full-funnel fixed split: with isFullFunnelEnabled, totalBudget > 0 and
\* a platform selected, the result is three entries Awareness 40%, Traffic
\* 35%, Conversions 25%; Awareness gets round(0.40 * totalBudget), Traffic
\* round(0.35 * totalBudget), Conversions the rest; for 100000 the result is
\* 40000, 35000, 25000 in that order.
C3_FullFunnelSplit ==
  (Returned /\ isFullFunnelEnabled /\ Budget > 0 /\ selectedPlatforms # <<>>)
    => LET a == RoundHalfUp(40 * Budget, 100)
           t == RoundHalfUp(35 * Budget, 100)
       IN  /\ Len(results) = 3
           /\ HasEntry("Awareness") /\ HasEntry("Traffic") /\ HasEntry("Conversions")
           /\ EntryOf("Awareness") = FunnelEntry("Awareness", 40, a)
           /\ EntryOf("Traffic") = FunnelEntry("Traffic", 35, t)
           /\ EntryOf("Conversions") = FunnelEntry("Conversions", 25, Budget - a - t)
           /\ Budget = 100000 =>
                results = << FunnelEntry("Awareness", 40, 40000),
                             FunnelEntry("Traffic", 35, 35000),
                             FunnelEntry("Conversions", 25, 25000) >>

\* C3, amended. Full-funnel fixed split: the result is three entries
\* Awareness 40%, Traffic 35%, Conversions 25%; Awareness gets 0.40 *
\* totalBudget rounded to the nearest integer; Traffic gets an integer nearest
\* to 0.35 * totalBudget, which is round(0.35 * totalBudget) except that an
\* exact half (totalBudget = 10 mod 20) may go down as well as up;
\* Conversions gets totalBudget minus those two amounts; for 100000 the
\* result is 40000, 35000, 25000 in that order.
C3_FullFunnelSplitNearest ==
  (Returned /\ isFullFunnelEnabled /\ Budget > 0 /\ selectedPlatforms # <<>>)
    => /\ Len(results) = 3
       /\ HasEntry("Awareness") /\ HasEntry("Traffic") /\ HasEntry("Conversions")
       /\ EntryOf("Awareness") = FunnelEntry("Awareness", 40, RoundHalfUp(40 * Budget, 100))
       /\ EntryOf("Traffic").allocationPercentage = FFromInt(35)
       /\ FIsInt(EntryOf("Traffic").budget)
       /\ LET a == RoundHalfUp(40 * Budget, 100)
              t == FToInt(EntryOf("Traffic").budget)
          IN  /\ 100 * t - 35 * Budget \in -50..50
              /\ (35 * Budget) % 100 # 50 => t = RoundHalfUp(35 * Budget, 100)
              /\ EntryOf("Conversions") = FunnelEntry("Conversions", 25, Budget - a - t)
       /\ Budget = 100000 =>
            results = << FunnelEntry("Awareness", 40, 40000),
                         FunnelEntry("Traffic", 35, 35000),
                         FunnelEntry("Conversions", 25, 25000) >>

\* a call where 0.35 * totalBudget is an exact half, and Traffic gets the lower
C3_Witness ==
  /\ Returned /\ isFullFunnelEnabled /\ Budget = 90 /\ selectedPlatforms # <<>>
  /\ Len(results) = 3
  /\ results[1] = FunnelEntry("Awareness", 40, 36)
  /\ results[2] = FunnelEntry("Traffic", 35, 31)
  /\ results[3] = FunnelEntry("Conversions", 25, 23)

\* C4. Full-funnel mode takes precedence and ignores everything but the
\* budget: a full-funnel call with totalBudget > 0 and a platform selected
\* returns what any other such call with the same budget returns, whatever
\* the objective, the platforms (one or many), the advanced flag and the
\* benchmarks (here two calls that differ from each other in all of them).
C4_FullFunnelIgnoresRest ==
  (Returned /\ isFullFunnelEnabled /\ Budget > 0 /\ selectedPlatforms # <<>>)
    => /\ results = calculateAllocation(totalBudget, "awareness", <<"meta">>, FALSE, NoBenchmarks, TRUE)
       /\ results = calculateAllocation(totalBudget, "leads", <<"linkedin", "meta">>, TRUE, BenchmarkInputs("leads", DecoyMap, DecoyMap), TRUE)

C4_Witness ==
  /\ Returned /\ isFullFunnelEnabled /\ Budget > 0
  /\ Len(selectedPlatforms) >= 2 /\ isAdvancedMode /\ objective = "engagement"
  /\ benchmarks # NoBenchmarks
  /\ Len(results) = 3

\* C5. Single-platform mode: without full funnel, with totalBudget > 0 and
\* exactly one platform selected, the result is one entry with percentage 100
\* and the whole budget, for every objective, advanced flag and benchmark
\* input, also for a platform of base weight 0.
C5_SinglePlatform ==
  (Returned /\ ~isFullFunnelEnabled /\ Budget > 0 /\ Len(selectedPlatforms) = 1)
    => /\ Len(results) = 1
       /\ results[1].allocationPercentage = FFromInt(100)
       /\ results[1].budget = totalBudget

C5_Witness ==
  /\ Returned /\ ~isFullFunnelEnabled /\ Budget > 0
  /\ selectedPlatforms = <<"google_search">> /\ objective = "awareness"
  /\ BaseWeight("google_search") = 0
  /\ isAdvancedMode /\ benchmarks # NoBenchmarks
  /\ Len(results) = 1

\* C6. Degenerate input: the call returns the empty sequence whenever
\* totalBudget <= 0 or selectedPlatforms is empty, in every mode, full-funnel
\* mode included.
C6_DegenerateInput ==
  (Returned /\ (Budget <= 0 \/ selectedPlatforms = <<>>)) => results = <<>>

C6_Witness ==
  /\ Returned /\ isFullFunnelEnabled
  /\ Budget <= 0 /\ selectedPlatforms # <<>>
  /\ results = <<>>

\* the sum of the weights the call stores for its selection
WeightSum ==
  SumOfSelectedWeights(
    PlatformWeights(objective, selectedPlatforms, isAdvancedMode, benchmarks),
    selectedPlatforms)

\* C7. Zero-weight rejection: in multi-platform weighted mode the call returns
\* the empty sequence if the sum of the (possibly adjusted) weights of the
\* selected platforms is exactly 0, and a non-empty result otherwise.
C7_ZeroWeightRejection ==
  (Returned /\ MultiChannelCall) => (results = <<>> <=> IsZero(WeightSum))

C7_Witness ==
  /\ Returned /\ MultiChannelCall
  /\ \A p \in Selected : BaseWeight(p) = 0
  /\ IsZero(WeightSum)
  /\ results = <<>>

\* weight / sum of the weights * 100, from the base weights of the objective
BasePercentage(platformKey) ==
  FMul(FDiv(FFromInt(BaseWeight(platformKey)), FFromInt(BaseWeightSum)),
       FFromInt(100))

\* C8. Normalization and percentage: in multi-platform weighted mode every
\* returned entry's allocationPercentage is that platform's weight / the sum
\* of the weights of the selected platforms * 100, from the weights and not
\* from the rounded amounts; with advanced mode off it is a function of the
\* base weights of the objective alone, not of totalBudget or of the order of
\* the selection (for a selection without repetition).
C8_Percentages ==
  (Returned /\ MultiChannelCall /\ DistinctSelection /\ results # <<>>)
    => LET weights == PlatformWeights(objective, selectedPlatforms, isAdvancedMode, benchmarks)
           sum == WeightSum
       IN  /\ Len(results) = Len(selectedPlatforms)
           /\ \A p \in Selected :
                /\ HasEntry(PlatformName(p))
                /\ EntryOf(PlatformName(p)).allocationPercentage
                     = FMul(FDiv(weights[p], sum), FFromInt(100))
                /\ ~isAdvancedMode =>
                     EntryOf(PlatformName(p)).allocationPercentage = BasePercentage(p)

C8_Witness ==
  /\ Returned /\ MultiChannelCall /\ DistinctSelection /\ ~isAdvancedMode
  /\ Len(selectedPlatforms) = 3 /\ Len(results) = 3
  /\ \E j \in 1..3 :
       /\ ~FIsInt(results[j].allocationPercentage)
       /\ FIsInt(results[j].budget)
       /\ FMul(FDiv(results[j].budget, totalBudget), FFromInt(100))
            # results[j].allocationPercentage

\* the benchmark map of the active metric: cpm for awareness, cpc for
\* engagement, cpa for conversions and leads
ActiveMap == benchmarks[getBenchmarkType(objective)]

Positive(x) == ~IsZero(x) /\ x.s = 0

HasPositiveBenchmark(platformKey) ==
  platformKey \in DOMAIN ActiveMap /\ Positive(ActiveMap[platformKey])

\* the selected platforms whose active benchmark is defined and > 0
Benchmarked == {p \in Selected : HasPositiveBenchmark(p)}

\* the arithmetic mean of their benchmarks (the benchmarks typed in are integers)
MeanBenchmark ==
  FDiv(FFromInt(SumOver([p \in Benchmarked |-> FToInt(ActiveMap[p])], Benchmarked)),
       FFromInt(Cardinality(Benchmarked)))

\* the weight the claims give a selected platform in advanced mode
ClaimedWeight(platformKey) ==
  IF HasPositiveBenchmark(platformKey)
  THEN FMul(FFromInt(BaseWeight(platformKey)),
            FDiv(MeanBenchmark, ActiveMap[platformKey]))
  ELSE FFromInt(BaseWeight(platformKey))

ClaimedWeightSum ==
  SumFrom(Zero, [i \in 1..Len(selectedPlatforms) |->
                   ClaimedWeight(selectedPlatforms[i])])

AdvancedMultiChannelCall ==
  MultiChannelCall /\ isAdvancedMode /\ DistinctSelection

\* C9. Benchmark re-weighting: in advanced multi-platform mode a selected
\* platform whose active benchmark is defined and > 0 has weight base weight *
\* (A / own benchmark), A the mean of the active benchmarks of exactly the
\* selected platforms whose benchmark is defined and > 0; seen in the share
\* it is returned with.
C9_BenchmarkReweighting ==
  (Returned /\ AdvancedMultiChannelCall /\ results # <<>>)
    => LET sum == ClaimedWeightSum IN
       \A p \in Benchmarked :
         EntryOf(PlatformName(p)).allocationPercentage
           = FMul(FDiv(ClaimedWeight(p), sum), FFromInt(100))

C9_Witness ==
  /\ Returned /\ AdvancedMultiChannelCall /\ results # <<>>
  /\ Cardinality(Benchmarked) >= 2
  /\ \E p, q \in Benchmarked : ActiveMap[p] # ActiveMap[q]
  /\ \E p \in DOMAIN ActiveMap \ Selected : Positive(ActiveMap[p])
  /\ \E p \in Benchmarked :
       EntryOf(PlatformName(p)).allocationPercentage # BasePercentage(p)

C9_WitnessNonPositive ==
  /\ Returned /\ AdvancedMultiChannelCall /\ results # <<>>
  /\ Benchmarked # {}
  /\ \E p \in Selected \ Benchmarked :
       p \in DOMAIN ActiveMap /\ ~Positive(ActiveMap[p])

\* C10. No-benchmark fallback: in advanced mode a selected platform with no
\* active benchmark, or one <= 0, keeps its base weight, so its share is base
\* weight / the sum of the selected platforms' (possibly adjusted) weights;
\* and if no selected platform has a positive active benchmark, the result
\* is that of the same call with isAdvancedMode false.
C10_NoBenchmarkFallback ==
  (Returned /\ AdvancedMultiChannelCall /\ results # <<>>)
    => /\ LET sum == ClaimedWeightSum IN
          \A p \in Selected \ Benchmarked :
            EntryOf(PlatformName(p)).allocationPercentage
              = FMul(FDiv(FFromInt(BaseWeight(p)), sum), FFromInt(100))
       /\ Benchmarked = {} =>
            results = calculateAllocation(totalBudget, objective, selectedPlatforms, FALSE, benchmarks, isFullFunnelEnabled)

C10_Witness ==
  /\ Returned /\ AdvancedMultiChannelCall /\ results # <<>>
  /\ Benchmarked # {}
  /\ \E p \in Selected \ Benchmarked : p \notin DOMAIN ActiveMap /\ BaseWeight(p) > 0
  /\ \E p \in Selected \ Benchmarked : p \in DOMAIN ActiveMap /\ BaseWeight(p) > 0
  /\ \E p, q \in Benchmarked : ActiveMap[p] # ActiveMap[q]
  /\ \E p \in Selected \ Benchmarked :
       EntryOf(PlatformName(p)).allocationPercentage # BasePercentage(p)

C10_WitnessNoBenchmark ==
  /\ Returned /\ AdvancedMultiChannelCall /\ results # <<>>
  /\ Benchmarked = {}
  /\ \E p \in Selected : p \in DOMAIN ActiveMap

\* the share a selected platform is returned with
ShareOf(platformKey) == EntryOf(PlatformName(platformKey)).allocationPercentage

\* no selected platform has a negative benchmark for the active metric: what
\* the form lets through
NoNegativeBenchmark ==
  \A p \in Selected : p \in DOMAIN ActiveMap => ActiveMap[p].s = 0

\* C11. Benchmark inversion: in advanced multi-platform mode, of two selected
\* platforms with equal base weight the one with the lower benchmark value
\* for the active metric is returned with a strictly larger
\* allocationPercentage, for every benchmark value the form lets through
\* (none negative).
C11_BenchmarkInversion ==
  (Returned /\ AdvancedMultiChannelCall /\ NoNegativeBenchmark /\ results # <<>>)
    => \A p, q \in Selected \cap DOMAIN ActiveMap :
         (BaseWeight(p) = BaseWeight(q) /\ FLt(ActiveMap[p], ActiveMap[q]))
           => FGt(ShareOf(p), ShareOf(q))

\* C11, amended.  Of two selected platforms with equal base weight whose
\* benchmark values for the active metric are both positive, the one with the
\* lower value is returned with a strictly larger allocationPercentage
\* (values that differ by more than the rounding of binary64 arithmetic, as
\* all values typed in whole units do); a platform whose value is 0 keeps its
\* base weight and may be returned with a share equal to or smaller than that
\* of a platform with a higher value.
C11_BenchmarkInversionPositive ==
  (Returned /\ AdvancedMultiChannelCall /\ results # <<>>)
    => \A p, q \in Benchmarked :
         (BaseWeight(p) = BaseWeight(q) /\ FLt(ActiveMap[p], ActiveMap[q]))
           => FGt(ShareOf(p), ShareOf(q))

C11_Witness ==
  /\ Returned /\ AdvancedMultiChannelCall /\ results # <<>>
  /\ Len(selectedPlatforms) >= 3
  /\ \E p, q \in Benchmarked :
       /\ BaseWeight(p) = BaseWeight(q) /\ BaseWeight(p) > 0
       /\ FLt(ActiveMap[p], ActiveMap[q])
       /\ FGt(ShareOf(p), ShareOf(q))
  /\ \E r \in Selected \ Benchmarked : r \in DOMAIN ActiveMap

\* a platform with benchmark 0 beside one of equal base weight with a
\* positive benchmark
C11_WitnessZero ==
  /\ Returned /\ AdvancedMultiChannelCall /\ NoNegativeBenchmark /\ results # <<>>
  /\ \E p \in Selected \cap DOMAIN ActiveMap, q \in Benchmarked :
       /\ IsZero(ActiveMap[p]) /\ BaseWeight(p) = BaseWeight(q)
       /\ ~FGt(ShareOf(p), ShareOf(q))

\* benchmark values for the two maps that are not the active one: positive,
\* zero and negative ones, for selected and unselected platforms
OtherMap ==
  BenchmarkMap([google_display |-> 1, twitter |-> 2, snapchat |-> 0,
                google_search |-> -1, tiktok |-> 2])

\* the maps of the two metrics that are not the active one
InactiveMaps ==
  {benchmarks[k] : k \in {"cpm", "cpc", "cpa"} \ {getBenchmarkType(objective)}}

\* C12. Active metric selection: in advanced multi-platform mode only the
\* benchmark map of the active metric is read (cpm for awareness, cpc for
\* engagement, cpa for conversions and leads): the call returns what the same
\* call returns with other values, or none, in the two other maps.
C12_ActiveMetricOnly ==
  (Returned /\ MultiChannelCall /\ isAdvancedMode)
    => /\ results = calculateAllocation(totalBudget, objective, selectedPlatforms, isAdvancedMode, BenchmarkInputs(objective, ActiveMap, OtherMap), isFullFunnelEnabled)
       /\ results = calculateAllocation(totalBudget, objective, selectedPlatforms, isAdvancedMode, BenchmarkInputs(objective, ActiveMap, EmptyMap), isFullFunnelEnabled)

\* the two other maps hold values for selected platforms, and the active map
\* moves the shares
C12_Witness ==
  /\ Returned /\ AdvancedMultiChannelCall /\ results # <<>>
  /\ objective = "leads"
  /\ InactiveMaps = {DecoyMap}
  /\ \E p \in Selected : p \in DOMAIN DecoyMap /\ Positive(DecoyMap[p])
  /\ \E p \in Benchmarked : ShareOf(p) # BasePercentage(p)
  /\ results # calculateAllocation(totalBudget, objective, selectedPlatforms, isAdvancedMode, BenchmarkInputs(objective, DecoyMap, DecoyMap), isFullFunnelEnabled)

\* the labels of the entries in the order of the input: the stages in
\* full-funnel mode, the selected platforms otherwise
InputLabels ==
  IF isFullFunnelEnabled THEN <<"Awareness", "Traffic", "Conversions">>
  ELSE [i \in 1..Len(selectedPlatforms) |-> PlatformName(selectedPlatforms[i])]

\* the ways to match the returned entries with the places of the input
Matchings ==
  {f \in [1..Len(results) -> 1..Len(InputLabels)] :
     /\ \A j, k \in 1..Len(results) : j # k => f[j] # f[k]
     /\ \A j \in 1..Len(results) : results[j].platform = InputLabels[f[j]]}

\* C13. Output ordering: every non-empty result is sorted by budget, largest
\* first, and entries of equal budget keep the relative order of the input
\* (the order of selectedPlatforms, or of the stages Awareness, Traffic,
\* Conversions in full-funnel mode).
C13_OutputOrdering ==
  (Returned /\ results # <<>>)
    => /\ \A j \in 1..(Len(results) - 1) :
            ~FLt(results[j].budget, results[j + 1].budget)
       /\ \E f \in Matchings :
            \A j, k \in 1..Len(results) :
              (j < k /\ results[j].budget = results[k].budget) => f[j] < f[k]

\* two entries of equal budget, of different platforms, behind an entry that
\* the sort moved to the front
C13_Witness ==
  /\ Returned /\ DistinctSelection /\ ~isFullFunnelEnabled
  /\ Len(results) = 3
  /\ results[1].platform = InputLabels[3]
  /\ results[2].budget = results[3].budget
  /\ results[2].platform = InputLabels[1]
  /\ results[3].platform = InputLabels[2]
  /\ FGt(results[1].budget, results[2].budget)

\* C14. All-or-nothing: every call returns the empty sequence or a complete
\* allocation: exactly three stage entries in full-funnel mode, exactly one
\* entry per element of selectedPlatforms otherwise, with budgets that sum to
\* totalBudget; never part of the selection or part of the budget.
C14_AllOrNothing ==
  Returned =>
    \/ results = <<>>
    \/ /\ Len(results) = IF isFullFunnelEnabled THEN 3 ELSE Len(selectedPlatforms)
       /\ BudgetsSumTo(totalBudget)

\* the part of C14 that the code keeps: the number of entries
C14_EntryCount ==
  Returned =>
    \/ results = <<>>
    \/ Len(results) = IF isFullFunnelEnabled THEN 3 ELSE Len(selectedPlatforms)

\* the form has just invoked calculateAllocation (handleCalculate, line 445)
EngineInvoked == pc = "return"

\* C15. Integer amounts: every budget field of every result of
\* calculateAllocation is an integer number of currency units, for every
\* totalBudget the form can submit (any number >= 1000 that parseFloat reads,
\* 1000.5 among them) and in every mode.
C15_IntegerAmounts ==
  EngineInvoked => \A j \in 1..Len(results) : FIsInt(results[j].budget)

\* the call is one of advanced multi-platform mode
AdvancedMultiPlatform ==
  ~isFullFunnelEnabled /\ isAdvancedMode /\ Len(selectedPlatforms) > 1

\* a selected platform has a negative benchmark in the map
NegativeIn(map) ==
  \E p \in Selected : IF p \in DOMAIN map THEN map[p].s = 1 ELSE FALSE

C17_NonZeroWeight == EngineInvoked => BaseWeightSum # 0

\* the four checks of the validation, each by what it asks of the form
InvalidBudget ==
  IF IsNumber(totalBudget) THEN FCmp(totalBudget, FFromInt(1000)) = -1 ELSE TRUE

NoPlatformSelected == Selected = {}

NegativeBenchmark == AdvancedMultiPlatform /\ NegativeIn(ActiveMap)

\* made for several platforms with full funnel off
AllZeroWeight ==
  ~isFullFunnelEnabled /\ Cardinality(Selected) > 1 /\ BaseWeightSum = 0

\* the message of the first failing check, "" when none fails
FirstFailing ==
  IF InvalidBudget THEN MessageBudget
  ELSE IF NoPlatformSelected THEN MessagePlatform
  ELSE IF NegativeBenchmark THEN MessageNegative
  ELSE IF AllZeroWeight THEN MessageZeroWeight
  ELSE ""

\* C18. Distinct validation errors: each failed validation of the form
\* reports exactly one of four distinct messages, chosen by the first failing
\* check in the fixed order invalid budget (< 1000 or not a number), no
\* platform selected, negative benchmark, all-zero weight; a later check is
\* never reported while an earlier one fails, and on any such failure the
\* engine is not invoked (when a check fails the click ends rejected, with
\* no results; when the engine was invoked no check fails).
C18_DistinctValidationErrors ==
  /\ Cardinality({MessageBudget, MessagePlatform, MessageNegative, MessageZeroWeight}) = 4
  /\ pc = "rejected" => (FirstFailing # "" /\ toast = FirstFailing /\ results = <<>>)
  /\ EngineInvoked => FirstFailing = ""

\* a click rejected for its budget while a later check, the negative
\* benchmark, fails too
C18_Witness ==
  /\ pc = "rejected"
  /\ InvalidBudget
  /\ NegativeBenchmark
  /\ toast = MessageBudget

\* lastChecked without the platforms that are not selected now
LastCheckedOfSelected == SelectSeq(lastChecked, LAMBDA key : key \in Selected)

\* C19. Selection uniqueness and order: after any sequence of platform
\* checkbox events in the form (check offered only for a currently unselected
\* platform, uncheck only for a selected one), selectedPlatforms contains no
\* platform twice, and its order is the order in which the currently selected
\* platforms were last checked.
C19_SelectionOrder ==
  /\ \A i, j \in 1..Len(selectedPlatforms) :
       selectedPlatforms[i] = selectedPlatforms[j] => i = j
  /\ selectedPlatforms = LastCheckedOfSelected

\* two platforms are selected, checked in the order opposite to the one the
\* checkboxes are shown in
C19_Witness ==
  /\ selectedPlatforms = <<"google_display", "google_search">>
  /\ lastChecked = <<"google_display", "google_search">>

C22_AdvancedFlagPassed ==
  EngineInvoked =>
    (AdvancedArgument => (Len(selectedPlatforms) > 1 /\ ~isFullFunnelEnabled))

\* the call is one the form's validation lets through: an integer budget of
\* 1000 or more, distinct platforms, at least one, a non-zero total weight
\* and, in advanced mode, no negative benchmark of the objective's metric
ValidatedCall ==
  /\ Budget >= 1000
  /\ selectedPlatforms # <<>>
  /\ DistinctSelection
  /\ BaseWeightSum # 0
  /\ isAdvancedMode => NoNegativeBenchmark

\* C23. Non-negative amounts: for every call that passes the form's
\* validation (integer totalBudget >= 1000, distinct selected platforms,
\* non-zero total weight), every budget field in the result is >= 0,
\* including the last platform in input order that absorbs the rounding
\* remainder and including a platform whose weight for the objective is 0.
C23_NonNegativeAmounts ==
  (Returned /\ ValidatedCall) => \A j \in 1..Len(results) : results[j].budget.s = 0

StageNames ==
  {FIXED_FUNNEL_SPLIT_RATIOS[i].name : i \in 1..Len(FIXED_FUNNEL_SPLIT_RATIOS)}

\* the rows are the three funnel stages of a full-funnel calculation
RowsAreFunnelStages ==
  /\ Len(results) = Len(FIXED_FUNNEL_SPLIT_RATIOS)
  /\ {results[j].platform : j \in 1..Len(results)} = StageNames

\* C25. Displayed table matches its heading: in every reachable form state
\* in which results are displayed, the heading is 'Full Funnel Allocation'
\* if and only if the displayed rows are the three funnel stages produced by
\* a full-funnel calculation.
C25_TableMatchesHeading ==
  TableShown => ((TableHeading = "Full Funnel Allocation") <=> RowsAreFunnelStages)

\* a step of handleCalculate: the only handler that ends rejected or with
\* the engine invoked
CalculateStep == pc' \in {"rejected", "return"}

\* allocationResults becomes r when r is not empty
BecomesResult(r) == IF r = <<>> THEN TRUE ELSE results' = r

\* C26. Failed Calculate clears the table: whenever handleCalculate runs in
\* a state where validation fails, allocationResults is set to the empty
\* list (a previously displayed allocation disappears) and calculateAllocation
\* is not invoked; whenever it runs in a state where validation passes and
\* the engine returns a non-empty result, allocationResults becomes exactly
\* that result.
C26_FailedCalculateClears ==
  [][CalculateStep =>
       IF FirstFailing # "" THEN (results' = <<>> /\ pc' = "rejected")
       ELSE (pc' = "return" /\ BecomesResult(EngineCall))]_vars

\* an allocation is displayed and the form no longer passes validation: the
\* state a failing Calculate click starts from
C26_Witness ==
  /\ TableShown
  /\ pc = "form"
  /\ FirstFailing # ""

\* a step of handleReset: the only handler that raises 'Form reset!'
ResetStep == toast' = MessageReset

\* C29. Reset restores the initial state: from any reachable form state,
\* handleReset sets totalBudget to empty, selectedObjective to awareness,
\* selectedPlatforms to the empty list, isAdvancedMode and
\* isFullFunnelEnabled to false, all three benchmark maps to empty and
\* allocationResults to empty, the state the component starts in.
C29_ResetRestoresInitial ==
  [][ResetStep =>
       /\ totalBudget' = EmptyString
       /\ objective' = "awareness"
       /\ selectedPlatforms' = <<>>
       /\ ~isAdvancedMode'
       /\ ~isFullFunnelEnabled'
       /\ \A k \in {"cpm", "cpc", "cpa"} : DOMAIN benchmarks'[k] = {}
       /\ results' = <<>>]_vars

\* a form with a table shown, a selection, advanced mode on and a benchmark
\* typed: a state a reset starts from
C29_Witness ==
  /\ TableShown
  /\ isAdvancedMode
  /\ Len(selectedPlatforms) > 1
  /\ \E k \in {"cpm", "cpc", "cpa"} : DOMAIN benchmarks[k] # {}

\* C27. Share order is respected by amounts: in multi-platform weighted mode
\* with integer totalBudget, if one selected platform's share is strictly
\* greater than another's, its budget amount is not smaller than the
\* other's, wherever the two stand in input order (the last platform, which
\* absorbs the remainder, included).
C27_ShareOrderRespected ==
  (Returned /\ MultiChannelCall /\ DistinctSelection /\ results # <<>>) =>
    \A j, k \in 1..Len(results) :
      FGt(results[j].allocationPercentage, results[k].allocationPercentage)
        => FCmp(results[j].budget, results[k].budget) >= 0

\* every positive benchmark of the objective's metric that a selected
\* platform supplies has the same value, and there is one
EqualBenchmarks ==
  /\ Benchmarked # {}
  /\ \A p, q \in Benchmarked : ActiveMap[p] = ActiveMap[q]

\* C28. Equal benchmarks are a no-op: in advanced multi-platform mode, if all
\* positive active-metric benchmarks supplied by the selected platforms have
\* the same value (one platform supplying the only one included), the result
\* is identical to the result of the same call with isAdvancedMode false.
C28_EqualBenchmarksNoOp ==
  (Returned /\ AdvancedMultiChannelCall /\ EqualBenchmarks) =>
    results = calculateAllocation(totalBudget, objective, selectedPlatforms,
                                  FALSE, benchmarks, isFullFunnelEnabled)

====
